---- MODULE Spec2Model ----
(***************************************************************************)
(* Orchestration core of services/audio-analyzer/analyzer.py: the          *)
(* AnalysisWorker loop (control poll, job intake, batch dispatch, await),  *)
(* the process pool (resize, recreate, shutdown), the two reclamation      *)
(* sweeps and the failure path, over the "Track" and "EnrichmentFailure"   *)
(* tables, the Redis push queue and the Redis control channel.             *)
(*                                                                         *)
(* Time is counted in minutes and kept as ages: updatedAge[t] is           *)
(* NOW() - "updatedAt", startedAge is NOW() - "analysisStartedAt".         *)
(* Time advances in steps of BATCH_TIMEOUT_MINUTES and ages saturate at    *)
(* MaxAge (anything above STALE_PROCESSING_MINUTES is stale alike).        *)
(***************************************************************************)
EXTENDS Integers, Sequences, FiniteSets, TLC

\* ------------------------------------------------------------ bounds
\* tracks in the "Track" table
NumTasks == 1
\* jobs the producers push while batches time out
MaxPushes == 1
\* jobs the producers push in one burst
MaxBurst == 2
\* control messages published
MaxMsgs == 2
\* batches that outlast the batch deadline
MaxSlow == 1
\* worker processes that die
MaxCrashes == 1
\* ages saturate here, above the staleness threshold
MaxAge == 15
\* entries waiting in the push queue when a tick takes its batch
MaxQueueLen == 3
MaxRuns == 4

\* ------------------------------------------------- program constants
\* BATCH_SIZE = int(os.getenv('BATCH_SIZE', '10')): run with BATCH_SIZE=2
BATCH_SIZE == 2
MAX_RETRIES == 3
STALE_PROCESSING_MINUTES == 10
DEFAULT_WORKERS == 2
\* as_completed(futures, timeout=300): five minutes
BATCH_TIMEOUT_MINUTES == 5
\* if self.consecutive_empty >= 10
IDLE_THRESHOLD == 10
\* if self.consecutive_empty >= 5
ERROR_THRESHOLD == 5
MIN_WORKERS == 1
MAX_WORKERS == 8

NULL == "NULL"
\* SQL NULL in a timestamp column
NoTime == 0 - 1
\* self.executor = None
\* a worker process of a pool: not spawned yet
\* (analyzer: the global _process_analyzer of the process, inits: runs of
\* _init_worker_process, ran: calls of _analyze_track_in_process)
NoProcess == [alive |-> FALSE, analyzer |-> "NULL", inits |-> 0, ran |-> 0]
NoExecutor == [max_workers |-> 0, broken |-> FALSE, shut |-> FALSE, procs |-> <<>>]
Tasks == 1..NumTasks
Ages == 0..MaxAge
Min(a, b) == IF a < b THEN a ELSE b
Max(a, b) == IF a > b THEN a ELSE b

VARIABLES
    tracks,            \* the "Track" table: id -> row
    failures,          \* the "EnrichmentFailure" table: id -> retryCount (0: no row)
    flags,             \* the "EnrichmentFailure" table: id -> [resolved, skipped]
    queue,             \* the Redis list audio:analysis:queue (track ids)
    control,           \* messages published on audio:analysis:control, not yet polled
    pc,                \* where AnalysisWorker.start is
    running,           \* self.running
    is_paused,         \* self.is_paused
    consecutive_empty, \* self.consecutive_empty
    polled,            \* what this tick's control poll consumed ("none": nothing)
    NUM_WORKERS,       \* the global NUM_WORKERS
    executor,          \* self.executor: NoExecutor or [max_workers, broken, shut, procs]
    pubsub,            \* self.pubsub: "subscribed", "closed" or NULL
    conn,              \* self.db.conn: "open", "lost" (dropped by the store) or NULL
    futures,           \* the awaited batch: id -> executions not yet yielded
    source,            \* which intake path produced the awaited batch
    abandoned,         \* id -> executions on self.executor the loop no longer awaits
    draining,          \* id -> executions on the old executor a resize waits for
    detached,          \* id -> executions on executors dropped by _recreate_pool
    ops,               \* what the last step of the loop did, in order
    pushLeft,          \* entries the producers may still push
    msgLeft,           \* control messages that may still be published
    slowLeft,          \* batches that may still outlast the batch deadline
    crashLeft          \* worker processes that may still die

store == <<tracks, failures, flags>>
redis == <<queue, control>>
loop == <<pc, running, is_paused, consecutive_empty, polled, ops>>
pool == <<NUM_WORKERS, executor, futures, source, abandoned, draining, detached>>
res == <<pubsub, conn>>
env == <<pushLeft, msgLeft, slowLeft, crashLeft>>
vars == <<tracks, failures, flags, queue, control, pc, running, is_paused,
          consecutive_empty, polled, NUM_WORKERS, executor, pubsub, conn, futures,
          source, abandoned, draining, detached, ops, pushLeft, msgLeft,
          slowLeft, crashLeft>>

\* ------------------------------------------------------------ helpers
Zero == [t \in Tasks |-> 0]
Total(f) == LET RECURSIVE S(_)
                S(n) == IF n = 0 THEN 0 ELSE f[n] + S(n - 1)
            IN S(NumTasks)
Plus(f, g) == [t \in Tasks |-> f[t] + g[t]]
Count(s, t) == Cardinality({i \in 1..Len(s) : s[i] = t})
Ids(s) == {s[i] : i \in 1..Len(s)}
Older(a) == IF a = NoTime THEN NoTime ELSE Min(a + BATCH_TIMEOUT_MINUTES, MaxAge)
Elapse(tr) == [t \in Tasks |-> [tr[t] EXCEPT !.updatedAge = Older(@),
                                             !.startedAge = Older(@)]]

NewTrack == [analysisStatus |-> "pending", analysisRetryCount |-> 0,
             analysisError |-> NULL, startedAge |-> NoTime, updatedAge |-> 0]

\* ------------------------------------------------- the "Track" table
\* ("analysisStartedAt" IS NOT NULL AND "analysisStartedAt" < NOW() - n minutes)
\* OR ("analysisStartedAt" IS NULL AND "updatedAt" < NOW() - n minutes)
IsStale(row) ==
    \/ row.startedAge # NoTime /\ row.startedAge > STALE_PROCESSING_MINUTES
    \/ row.startedAge = NoTime /\ row.updatedAge > STALE_PROCESSING_MINUTES

\* (a sweep that forgets the ceiling)
StaleEligible_NoCeiling(row) ==
    /\ row.analysisStatus = "processing"
    /\ IsStale(row)

StaleEligible(row) ==
    /\ row.analysisStatus = "processing"
    /\ IsStale(row)
    /\ row.analysisRetryCount < MAX_RETRIES

\* (a sweep that requeues without counting the retry)
CleanupStaleProcessing_NoCount(tr) ==
    [t \in Tasks |->
        IF StaleEligible(tr[t])
        THEN [tr[t] EXCEPT !.analysisStatus = "pending", !.startedAge = NoTime]
        ELSE tr[t]]

\* _cleanup_stale_processing: the UPDATE, committed
CleanupStaleProcessing(tr) ==
    [t \in Tasks |->
        IF StaleEligible(tr[t])
        THEN [tr[t] EXCEPT !.analysisStatus = "pending",
                           !.startedAge = NoTime,
                           !.analysisRetryCount = @ + 1]
        ELSE tr[t]]

\* (a retry sweep that forgets the ceiling)
RetryEligible_NoCeiling(row) == row.analysisStatus = "failed"

RetryEligible(row) ==
    /\ row.analysisStatus = "failed"
    /\ row.analysisRetryCount < MAX_RETRIES

\* (a retry sweep that leaves the error in place)
RetryFailedTracks_KeepError(tr) ==
    [t \in Tasks |->
        IF tr[t].analysisStatus = "failed" /\ tr[t].analysisRetryCount < MAX_RETRIES
        THEN [tr[t] EXCEPT !.analysisStatus = "pending"]
        ELSE tr[t]]

\* _retry_failed_tracks: the UPDATE, committed (the COUNT only logs)
RetryFailedTracks(tr) ==
    [t \in Tasks |->
        IF RetryEligible(tr[t])
        THEN [tr[t] EXCEPT !.analysisStatus = "pending", !.analysisError = NULL]
        ELSE tr[t]]

\* UPDATE "Track" SET "analysisStatus" = 'processing' WHERE id = ANY(track_ids)
MarkProcessing(tr, ids) ==
    [t \in Tasks |->
        IF t \in ids THEN [tr[t] EXCEPT !.analysisStatus = "processing"] ELSE tr[t]]

\* (a completion that clears the retry count with the error)
SaveResults_ResetCount(tr, t) ==
    [tr EXCEPT ![t].analysisStatus = "completed",
               ![t].analysisError = NULL,
               ![t].analysisRetryCount = 0]

\* _save_results: status completed, error cleared
SaveResults(tr, t) ==
    [tr EXCEPT ![t].analysisStatus = "completed", ![t].analysisError = NULL]

\* _save_failed, the "Track" half: status failed, error set, retry count + 1
SaveFailedTrack(tr, t) ==
    [tr EXCEPT ![t].analysisStatus = "failed",
               ![t].analysisError = "error",
               ![t].analysisRetryCount = @ + 1]

\* (an upsert that overwrites the count instead of adding to it)
SaveFailedLedger_Overwrite(fl, t) == [fl EXCEPT ![t] = 1]

\* _save_failed, the "EnrichmentFailure" half: INSERT retryCount 1,
\* ON CONFLICT retryCount + 1
SaveFailedLedger(fl, t) == [fl EXCEPT ![t] = @ + 1]

\* resolved = false, skipped = false (the column defaults on INSERT)
Unflagged == [resolved |-> FALSE, skipped |-> FALSE]
SaveFailedFlags(fg, t) == [fg EXCEPT ![t] = Unflagged]

\* SELECT id FROM "Track" WHERE "analysisStatus" = 'pending'
\* ORDER BY "fileModified" DESC LIMIT BATCH_SIZE.  "fileModified" grows with
\* the id here: the most recently modified track has the highest id.
RECURSIVE TopPending(_, _, _)
TopPending(tr, t, k) ==
    IF t = 0 \/ k = 0 THEN <<>>
    ELSE IF tr[t].analysisStatus = "pending"
         THEN <<t>> \o TopPending(tr, t - 1, k - 1)
         ELSE TopPending(tr, t - 1, k)

PendingQuery(tr) == TopPending(tr, NumTasks, BATCH_SIZE)

\* (an intake that drains the whole queue)
QueuedJobs_All(q) == q

\* the lpop loop of process_batch_parallel: at most BATCH_SIZE entries, FIFO
QueuedJobs(q) == SubSeq(q, 1, Min(BATCH_SIZE, Len(q)))
QueueRest(q) == SubSeq(q, Min(BATCH_SIZE, Len(q)) + 1, Len(q))

\* futures = {self.executor.submit(...): t for t in tracks}: one per entry
Submitted(batch) == [t \in Tasks |-> Count(batch, t)]

\* ------------------------------------------------------ the pool
\* new_count = max(1, min(8, new_count))
ClampWorkers(c) == Max(MIN_WORKERS, Min(MAX_WORKERS, c))

\* ProcessPoolExecutor(max_workers=NUM_WORKERS, initializer=...)
NewPool(n) == [max_workers |-> n, broken |-> FALSE, shut |-> FALSE,
               procs |-> [w \in 1..n |-> NoProcess]]

\* _check_pool_health: the probe submits a lambda, which a process pool
\* cannot pickle, so future.result raises and the probe reports False
CheckPoolHealth(ex) == FALSE

\* --------------------------------------------------- control payloads
\* A payload is [kind, count].  Besides the three literals and a set_workers
\* object with an integer count, the channel may carry a set_workers object
\* whose count is a float (count holds its tenths: 45 is 4.5), a string of
\* digits, some other string, null or absent, a JSON value of another shape,
\* and text that is neither JSON nor a literal.
\* json.loads succeeds and cmd.get('command') == 'set_workers', and
\* int(cmd.get('count', NUM_WORKERS)) returns: these reach the resize
ResizeKinds ==
    {"set_workers", "set_workers_float", "set_workers_digits",
     "set_workers_absent"}

\* int(cmd.get('count', NUM_WORKERS)): a float is truncated, a string of
\* digits is read, an absent count is the current worker count
IntCount(m) ==
    CASE m.kind = "set_workers_float" -> m.count \div 10
      [] m.kind = "set_workers_absent" -> NUM_WORKERS
      [] OTHER -> m.count

\* int() raises ValueError on another string (caught, the payload is then
\* compared with the literals) and TypeError on null (caught by the outer
\* except, with a warning); other JSON and other text match no literal
IgnoredKinds == {"set_workers_text", "set_workers_null", "json_other", "text_other"}

Literals == {"pause", "resume", "stop"}
WorkerCounts == {1, 2, 9}
Payloads ==
    {[kind |-> k, count |-> 0] : k \in Literals}
    \cup {[kind |-> "set_workers", count |-> c] : c \in WorkerCounts}

\* payloads that are neither a literal nor set_workers with an integer count
FloatCounts == {25, 45}
OddPayloads ==
    {[kind |-> k, count |-> 0] : k \in IgnoredKinds \cup {"set_workers_absent"}}
    \cup {[kind |-> "set_workers_float", count |-> c] : c \in FloatCounts}
    \cup {[kind |-> "set_workers_digits", count |-> 4]}

\* ------------------------------------------------------------- Init
InitStore ==
    /\ tracks = [t \in Tasks |-> NewTrack]
    /\ failures = Zero
    /\ flags = [t \in Tasks |-> Unflagged]

\* _get_workers_from_db: the "SystemSettings" value clamped into [1,8] when
\* there is one, else the NUM_WORKERS environment value as it is, else the
\* default
Unset == [present |-> FALSE, value |-> 0]
Given(v) == [present |-> TRUE, value |-> v]
GetWorkersFromDb(setting, envvar) ==
    IF setting.present THEN Max(1, Min(8, setting.value))
    ELSE IF envvar.present THEN envvar.value
    ELSE DEFAULT_WORKERS

\* the state AnalysisWorker.__init__ leaves, before start()
InitLoop ==
    /\ queue = <<>>
    /\ control = <<>>
    /\ pc = "init"
    /\ running = FALSE
    /\ is_paused = FALSE
    /\ consecutive_empty = 0
    /\ polled = "none"
    /\ executor = NoExecutor
    /\ pubsub = "subscribed"
    /\ conn = NULL
    /\ futures = Zero
    /\ source = NULL
    /\ abandoned = Zero
    /\ draining = Zero
    /\ detached = Zero
    /\ ops = <<>>

\* a deployment with no "SystemSettings" row and no NUM_WORKERS in the
\* environment
InitWorker ==
    /\ InitLoop
    /\ NUM_WORKERS = GetWorkersFromDb(Unset, Unset)

\* what the environment may still do
Budget(p, m, s, c) ==
    /\ pushLeft = p
    /\ msgLeft = m
    /\ slowLeft = s
    /\ crashLeft = c

Init ==
    /\ InitStore
    /\ InitWorker
    /\ Budget(MaxPushes, MaxMsgs, MaxSlow, MaxCrashes)

\* ------------------------------------------------ pieces of start()
\* (a recreate that falls back to the default size)
RecreatePool_DefaultSize(ab) ==
    /\ executor' = NewPool(DEFAULT_WORKERS)
    /\ detached' = Plus(detached, ab)
    /\ abandoned' = Zero

\* _recreate_pool: shutdown(wait=False) of the old pool, then a fresh pool of
\* NUM_WORKERS; what still ran on the old pool runs on, unobserved
\* (ab: the executions the loop has given up on, on self.executor)
RecreatePool(ab) ==
    /\ executor' = NewPool(NUM_WORKERS)
    /\ detached' = Plus(detached, ab)
    /\ abandoned' = Zero

KeepPool(ab) ==
    /\ abandoned' = ab
    /\ UNCHANGED <<executor, detached>>

\* has_work False: count the empty batch, sweep at the tenth
NoWork(tr, ab, did) ==
    LET n == consecutive_empty + 1
        sweep == n >= IDLE_THRESHOLD
    IN  /\ consecutive_empty' = IF sweep THEN 0 ELSE n
        /\ tracks' = IF sweep THEN RetryFailedTracks(CleanupStaleProcessing(tr))
                     ELSE tr
        /\ ops' = did \o (IF sweep THEN <<"stale_sweep", "retry_sweep">> ELSE <<>>)
        /\ pc' = "poll"
        /\ KeepPool(ab)
        /\ UNCHANGED conn

\* (a handler that replaces a broken pool and sweeps as soon as the pool
\* breaks, with the batch still awaited)
OnBrokenPool_Eager ==
    /\ UNCHANGED flags
    /\ pc \in {"recreate", "await"}
    /\ pc = "await" => executor.broken
    /\ RecreatePool(abandoned)
    /\ tracks' = CleanupStaleProcessing(tracks)
    /\ ops' = <<"new_pool", "stale_sweep">>
    /\ pc' = IF pc = "await" THEN "await" ELSE "poll"
    /\ UNCHANGED <<failures, redis, running, is_paused, consecutive_empty, polled,
                   NUM_WORKERS, futures, source, draining, res, env>>

\* except BrokenProcessPool: _recreate_pool (shutdown(wait=False), two seconds
\* of sleep, a fresh pool), then the stale sweep, then continue.  The sweep
\* takes its cursor outside its try: on a connection lost meanwhile the error
\* leaves the handler, and with it the while loop, for the finally block.
OnBrokenPool ==
    /\ UNCHANGED flags
    /\ pc = "recreate"
    /\ RecreatePool(abandoned)
    /\ IF conn = "open"
       THEN /\ tracks' = CleanupStaleProcessing(tracks)
            /\ ops' = <<"new_pool", "stale_sweep">>
            /\ pc' = "poll"
       ELSE /\ tracks' = tracks
            /\ ops' = <<"new_pool", "raise">>
            /\ pc' = "finally"
    /\ UNCHANGED <<failures, redis, running, is_paused, consecutive_empty, polled,
                   NUM_WORKERS, futures, source, draining, res, env>>

\* (a recovery that resets the counter only when it went through)
OnErrorWith_KeepsCount(tr, ab, did, up) ==
    LET n == consecutive_empty + 1
        recover == n >= ERROR_THRESHOLD
        recreate == recover /\ up /\ ~CheckPoolHealth(executor)
    IN  /\ consecutive_empty' = IF recover /\ up THEN 0 ELSE n
        /\ tracks' = IF recover /\ up
                     THEN RetryFailedTracks(CleanupStaleProcessing(tr))
                     ELSE tr
        /\ IF recreate THEN RecreatePool(ab) ELSE KeepPool(ab)
        /\ conn' = IF ~recover THEN conn ELSE IF up THEN "open" ELSE NULL
        /\ ops' = did
                  \o (IF ~recover THEN <<>>
                      ELSE IF up
                      THEN <<"db_close", "db_connect", "stale_sweep",
                             "retry_sweep", "health_check">>
                      ELSE <<"db_close", "connect_failed">>)
                  \o (IF recreate THEN <<"pool_shutdown_nowait", "new_pool">>
                      ELSE <<>>)
                  \o <<"sleep">>
        /\ pc' = "poll"

\* except Exception: count the error, recover at the fifth, back off.
\* up: db.connect() of the recovery succeeds; when it raises, the rest of the
\* recovery is skipped and the connection stays closed
OnErrorWith(tr, ab, did, up) ==
    LET n == consecutive_empty + 1
        recover == n >= ERROR_THRESHOLD
        recreate == recover /\ up /\ ~CheckPoolHealth(executor)
    IN  /\ consecutive_empty' = IF recover THEN 0 ELSE n
        /\ tracks' = IF recover /\ up
                     THEN RetryFailedTracks(CleanupStaleProcessing(tr))
                     ELSE tr
        /\ IF recreate THEN RecreatePool(ab) ELSE KeepPool(ab)
        /\ conn' = IF ~recover THEN conn ELSE IF up THEN "open" ELSE NULL
        /\ ops' = did
                  \o (IF ~recover THEN <<>>
                      ELSE IF up
                      THEN <<"db_close", "db_connect", "stale_sweep",
                             "retry_sweep", "health_check">>
                      ELSE <<"db_close", "connect_failed">>)
                  \o (IF recreate THEN <<"pool_shutdown_nowait", "new_pool">>
                      ELSE <<>>)
                  \o <<"sleep">>
        /\ pc' = "poll"

\* the store answers when the recovery reconnects
OnError(tr, ab, did) == OnErrorWith(tr, ab, did, TRUE)

\* ---------------------------------------------------------- actions
\* (a startup without the retry sweep)
Start_NoRetrySweep ==
    /\ UNCHANGED flags
    /\ UNCHANGED polled
    /\ pc = "init"
    /\ conn' = "open"
    /\ running' = TRUE
    /\ tracks' = CleanupStaleProcessing(tracks)
    /\ executor' = NewPool(NUM_WORKERS)
    /\ ops' = <<"db_connect", "stale_sweep", "new_pool">>
    /\ pc' = "poll"
    /\ UNCHANGED <<failures, redis, is_paused, consecutive_empty, NUM_WORKERS,
                   pubsub, futures, source, abandoned, draining, detached, env>>

\* start() up to the loop: connect, both sweeps, the first pool
Start ==
    /\ UNCHANGED flags
    /\ UNCHANGED polled
    /\ pc = "init"
    /\ conn' = "open"
    /\ running' = TRUE
    /\ tracks' = RetryFailedTracks(CleanupStaleProcessing(tracks))
    /\ executor' = NewPool(NUM_WORKERS)
    /\ ops' = <<"db_connect", "stale_sweep", "retry_sweep", "new_pool">>
    /\ pc' = "poll"
    /\ UNCHANGED <<failures, redis, is_paused, consecutive_empty, NUM_WORKERS,
                   pubsub, futures, source, abandoned, draining, detached, env>>

\* while self.running: false, so on to the finally block
LoopExit ==
    /\ UNCHANGED polled
    /\ pc = "poll"
    /\ ~running
    /\ pc' = "finally"
    /\ ops' = <<>>
    /\ UNCHANGED <<store, redis, running, is_paused, consecutive_empty, pool,
                   res, env>>

\* (a resize that skips the comparison with the current count)
ResizeWorkerPool_Always(new_count) ==
    /\ NUM_WORKERS' = new_count
    /\ executor' = NewPool(new_count)
    /\ draining' = abandoned
    /\ abandoned' = Zero
    /\ ops' = <<"set_workers", "new_pool">>
    /\ pc' = "resize_wait"

\* (a resize that is skipped while the worker is paused)
ResizeWorkerPool_UnlessPaused(new_count) ==
    IF new_count = NUM_WORKERS \/ is_paused
    THEN /\ pc' = "work"
         /\ ops' = <<"set_workers">>
         /\ UNCHANGED <<NUM_WORKERS, executor, abandoned, draining>>
    ELSE /\ NUM_WORKERS' = new_count
         /\ executor' = NewPool(new_count)
         /\ draining' = abandoned
         /\ abandoned' = Zero
         /\ ops' = <<"set_workers", "new_pool">>
         /\ pc' = "resize_wait"

\* _resize_worker_pool: nothing when the count is the current one; else the
\* new pool first, then shutdown(wait=True) of the old one
ResizeWorkerPool(new_count) ==
    IF new_count = NUM_WORKERS
    THEN /\ pc' = "work"
         /\ ops' = <<"set_workers">>
         /\ UNCHANGED <<NUM_WORKERS, executor, abandoned, draining>>
    ELSE /\ NUM_WORKERS' = new_count
         /\ executor' = NewPool(new_count)
         /\ draining' = abandoned
         /\ abandoned' = Zero
         /\ ops' = <<"set_workers", "new_pool">>
         /\ pc' = "resize_wait"

\* the plain literals of _check_control_signals; anything else is ignored
ApplyLiteral(data) ==
    /\ is_paused' = IF data = "pause" THEN TRUE
                    ELSE IF data = "resume" THEN FALSE
                    ELSE is_paused
    /\ running' = IF data = "stop" THEN FALSE ELSE running

\* (a poll that takes the newest message instead of the oldest)
ControlPoll_Newest ==
    /\ pc = "poll"
    /\ running
    /\ IF pubsub = "subscribed" /\ control # <<>>
       THEN LET m == control[Len(control)]
            IN  /\ control' = SubSeq(control, 1, Len(control) - 1)
                /\ polled' = m.kind
                /\ IF m.kind \in ResizeKinds
                   THEN /\ ResizeWorkerPool(ClampWorkers(IntCount(m)))
                        /\ UNCHANGED <<is_paused, running>>
                   ELSE /\ ApplyLiteral(m.kind)
                        /\ pc' = "work"
                        /\ ops' = <<m.kind>>
                        /\ UNCHANGED <<NUM_WORKERS, executor, abandoned, draining>>
       ELSE /\ pc' = "work"
            /\ polled' = "none"
            /\ ops' = <<>>
            /\ UNCHANGED <<control, is_paused, running, NUM_WORKERS, executor,
                           abandoned, draining>>
    /\ UNCHANGED <<store, queue, consecutive_empty, futures, source, detached,
                   res, env>>

\* _check_control_signals, at the top of a tick
ControlPoll ==
    /\ pc = "poll"
    /\ running
    /\ IF pubsub = "subscribed" /\ control # <<>>
       THEN LET m == Head(control)
            IN  /\ control' = Tail(control)
                /\ polled' = m.kind
                /\ IF m.kind \in ResizeKinds
                   THEN /\ ResizeWorkerPool(ClampWorkers(IntCount(m)))
                        /\ UNCHANGED <<is_paused, running>>
                   ELSE /\ ApplyLiteral(m.kind)
                        /\ pc' = "work"
                        /\ ops' = <<m.kind>>
                        /\ UNCHANGED <<NUM_WORKERS, executor, abandoned, draining>>
       ELSE /\ pc' = "work"
            /\ polled' = "none"
            /\ ops' = <<>>
            /\ UNCHANGED <<control, is_paused, running, NUM_WORKERS, executor,
                           abandoned, draining>>
    /\ UNCHANGED <<store, queue, consecutive_empty, futures, source, detached,
                   res, env>>

\* (a resize that releases the old pool without waiting for it)
ResizeDone_NoWait ==
    /\ pc = "resize_wait"
    /\ pc' = "work"
    /\ ops' = <<"pool_shutdown_wait">>
    /\ UNCHANGED <<store, redis, running, is_paused, consecutive_empty, polled,
                   pool, res, env>>

\* (a failed poll that takes the loop down)
ControlPollFails_Stops ==
    /\ pc = "poll"
    /\ running
    /\ pubsub = "subscribed"
    /\ pc' = "work"
    /\ polled' = "none"
    /\ running' = FALSE
    /\ ops' = <<"poll_error">>
    /\ UNCHANGED <<store, redis, is_paused, consecutive_empty, pool, res, env>>

\* _check_control_signals when get_message raises (the Redis connection is
\* gone): the outer except logs a warning, nothing is consumed
ControlPollFails ==
    /\ pc = "poll"
    /\ running
    /\ pubsub = "subscribed"
    /\ pc' = "work"
    /\ polled' = "none"
    /\ ops' = <<"poll_error">>
    /\ UNCHANGED <<store, redis, running, is_paused, consecutive_empty, pool,
                   res, env>>

\* old_executor.shutdown(wait=True) returns once the old pool has no work left
ResizeDone ==
    /\ UNCHANGED polled
    /\ pc = "resize_wait"
    /\ Total(draining) = 0
    /\ pc' = "work"
    /\ ops' = <<"pool_shutdown_wait">>
    /\ UNCHANGED <<store, redis, running, is_paused, consecutive_empty, pool,
                   res, env>>

\* the rest of the tick: the pause check, then process_batch_parallel up to
\* the submission of the batch
Work ==
    /\ UNCHANGED flags
    /\ UNCHANGED polled
    /\ pc = "work"
    /\ IF is_paused
       THEN /\ pc' = "poll"
            /\ ops' = <<"sleep">>
            /\ UNCHANGED <<tracks, queue, consecutive_empty, executor, futures,
                           source, abandoned, detached, conn>>
       ELSE LET queued == QueuedJobs(queue)
                batch == IF queued # <<>> THEN queued ELSE PendingQuery(tracks)
                from == IF queued # <<>> THEN "queue" ELSE "db"
                marked == MarkProcessing(tracks, Ids(batch))
            IN  /\ queue' = QueueRest(queue)
                /\ IF batch = <<>>
                   THEN /\ NoWork(tracks, abandoned, <<"intake", "sleep">>)
                        /\ UNCHANGED <<futures, source>>
                   ELSE IF executor.broken
                   THEN \* self.executor.submit raises BrokenProcessPool
                        /\ IF from = "queue"
                           THEN /\ tracks' = marked
                                /\ pc' = "recreate"
                                /\ ops' = <<"intake", "mark", "pool_shutdown_nowait">>
                                /\ UNCHANGED <<consecutive_empty, executor,
                                               abandoned, detached, conn>>
                           ELSE NoWork(marked, abandoned, <<"intake", "mark", "rollback">>)
                        /\ UNCHANGED <<futures, source>>
                   ELSE /\ tracks' = marked
                        /\ futures' = Submitted(batch)
                        /\ source' = from
                        /\ pc' = "await"
                        /\ ops' = <<"intake", "mark", "submit">>
                        /\ UNCHANGED <<consecutive_empty, executor, abandoned,
                                       detached, conn>>
    /\ UNCHANGED <<failures, control, running, is_paused, NUM_WORKERS, draining,
                   pubsub, env>>

\* process_batch_parallel when self.redis.lpop raises (Redis unreachable):
\* nothing is taken in, the error reaches the except Exception of start()
IntakeFails(up) ==
    /\ pc = "work"
    /\ ~is_paused
    /\ OnErrorWith(tracks, abandoned, <<"lpop_error">>, up)
    /\ UNCHANGED <<failures, flags, redis, running, is_paused, polled,
                   NUM_WORKERS, futures, source, draining, pubsub, env>>

\* process_batch_parallel when the queue is empty and the SELECT of the
\* pending tracks raises (a statement or transaction error on a live
\* connection): except Exception rolls back and returns False, which start()
\* counts as an empty batch
PullFails ==
    /\ pc = "work"
    /\ ~is_paused
    /\ QueuedJobs(queue) = <<>>
    /\ queue' = QueueRest(queue)
    /\ NoWork(tracks, abandoned, <<"intake", "query_error", "rollback">>)
    /\ UNCHANGED <<failures, flags, control, running, is_paused, polled,
                   NUM_WORKERS, futures, source, draining, pubsub, env>>

\* a tick whose UPDATE to 'processing' raises (a statement or transaction
\* error on a live connection): _process_tracks_parallel logs, rolls back and
\* goes on to submit the batch
MarkFails ==
    /\ pc = "work"
    /\ ~is_paused
    /\ ~executor.broken
    /\ LET queued == QueuedJobs(queue)
           batch == IF queued # <<>> THEN queued ELSE PendingQuery(tracks)
       IN  /\ batch # <<>>
           /\ queue' = QueueRest(queue)
           /\ futures' = Submitted(batch)
           /\ source' = IF queued # <<>> THEN "queue" ELSE "db"
    /\ pc' = "await"
    /\ ops' = <<"intake", "mark_error", "rollback", "submit">>
    /\ UNCHANGED <<store, control, running, is_paused, consecutive_empty, polled,
                   NUM_WORKERS, executor, pubsub, conn, abandoned, draining,
                   detached, env>>

\* as_completed yields one future of the batch; its result is persisted.
\* o: "ok" (features), "error" (an _error record, or result() raised)
Complete(t, o) ==
    /\ UNCHANGED polled
    /\ pc = "await"
    /\ futures[t] > 0
    /\ executor.broken => o = "error"
    /\ IF o = "ok"
       THEN /\ tracks' = SaveResults(tracks, t)
            /\ UNCHANGED <<failures, flags>>
       ELSE /\ tracks' = SaveFailedTrack(tracks, t)
            /\ failures' = SaveFailedLedger(failures, t)
            /\ flags' = SaveFailedFlags(flags, t)
    /\ futures' = [futures EXCEPT ![t] = @ - 1]
    /\ IF Total(futures) = 1
       THEN /\ pc' = "poll"
            /\ consecutive_empty' = 0
       ELSE UNCHANGED <<pc, consecutive_empty>>
    /\ ops' = <<IF o = "ok" THEN "save_results" ELSE "save_failed">>
    /\ UNCHANGED <<redis, running, is_paused, NUM_WORKERS, executor, source,
                   abandoned, draining, detached, res, env>>

\* _save_failed when a statement inside its try raises on a live connection:
\* except Exception rolls back, nothing of the failure path is committed, the
\* await goes on with the next future
SaveFailedFails(t) ==
    /\ pc = "await"
    /\ futures[t] > 0
    /\ conn = "open"
    /\ futures' = [futures EXCEPT ![t] = @ - 1]
    /\ IF Total(futures) = 1
       THEN /\ pc' = "poll"
            /\ consecutive_empty' = 0
       ELSE UNCHANGED <<pc, consecutive_empty>>
    /\ ops' = <<"save_error", "rollback">>
    /\ UNCHANGED <<store, redis, running, is_paused, polled, NUM_WORKERS,
                   executor, source, abandoned, draining, detached, res, env>>

\* the persistence of a yielded future on a connection the server has closed:
\* the statement raises, the rollback in the except clause raises as well (or
\* get_cursor does, outside every try), and the error leaves
\* _process_tracks_parallel with the rest of the batch unawaited; it passes
\* the except clause of process_batch_parallel, whose rollback raises again,
\* and ends in the except Exception handler of start()
SaveFailedLost(t, up) ==
    /\ pc = "await"
    /\ futures[t] > 0
    /\ conn = "lost"
    /\ futures' = Zero
    /\ OnErrorWith(tracks, Plus(abandoned, [futures EXCEPT ![t] = @ - 1]),
                   <<"save_error", "rollback_error">>, up)
    /\ UNCHANGED <<failures, flags, redis, running, is_paused, polled,
                   NUM_WORKERS, source, draining, pubsub, env>>

\* a tick on a connection the server has closed: the entries of the queue are
\* popped, then get_cursor raises, for the mark or for the pull query
WorkLost(up) ==
    /\ pc = "work"
    /\ ~is_paused
    /\ conn = "lost"
    /\ queue' = QueueRest(queue)
    /\ OnErrorWith(tracks, abandoned, <<"intake", "cursor_error">>, up)
    /\ UNCHANGED <<failures, flags, control, running, is_paused, polled,
                   NUM_WORKERS, futures, source, draining, pubsub, env>>

\* a queue entry that json.loads cannot decode, or an object with no trackId
BadEntry == 0

\* the position of the first bad entry among the entries a tick would pop
FirstBad(q) ==
    CHOOSE k \in 1..Len(QueuedJobs(q)) :
        /\ q[k] = BadEntry
        /\ \A j \in 1..(k - 1) : q[j] # BadEntry

\* process_batch_parallel when the lpop loop meets a bad entry: json.loads or
\* job['trackId'] raises with the entries popped so far held in a local list;
\* the error reaches the except Exception of start()
IntakeBad ==
    /\ pc = "work"
    /\ ~is_paused
    /\ BadEntry \in Ids(QueuedJobs(queue))
    /\ queue' = SubSeq(queue, FirstBad(queue) + 1, Len(queue))
    /\ OnErrorWith(tracks, abandoned, <<"intake", "decode_error">>, TRUE)
    /\ UNCHANGED <<failures, flags, control, running, is_paused, polled,
                   NUM_WORKERS, futures, source, draining, pubsub, env>>

\* as_completed raises TimeoutError after 300 s: the unfinished executions
\* are left on the pool; the pull path returns False, the push path lets the
\* error reach the loop
BatchTimeout ==
    /\ UNCHANGED flags
    /\ UNCHANGED polled
    /\ pc = "await"
    /\ ~executor.broken
    /\ slowLeft > 0
    /\ slowLeft' = slowLeft - 1
    /\ futures' = Zero
    /\ IF source = "db"
       THEN NoWork(Elapse(tracks), Plus(abandoned, futures), <<"timeout", "rollback">>)
       ELSE OnError(Elapse(tracks), Plus(abandoned, futures), <<"timeout">>)
    /\ UNCHANGED <<failures, redis, running, is_paused, NUM_WORKERS, source,
                   draining, pubsub, pushLeft, msgLeft, crashLeft>>

\* a worker process dies: the pool is broken, its processes are terminated,
\* every future still pending on it raises BrokenProcessPool
Crash ==
    /\ UNCHANGED polled
    /\ pc \in {"poll", "work", "await"}
    /\ ~executor.broken
    /\ Total(futures) + Total(abandoned) > 0
    /\ crashLeft > 0
    /\ crashLeft' = crashLeft - 1
    /\ executor' = [executor EXCEPT !.broken = TRUE]
    /\ abandoned' = Zero
    /\ ops' = <<>>
    /\ UNCHANGED <<store, redis, pc, running, is_paused, consecutive_empty,
                   NUM_WORKERS, futures, source, draining, detached, res,
                   pushLeft, msgLeft, slowLeft>>

\* the pool spawns worker process w, which runs _init_worker_process.
\* how: "enhanced" (AudioAnalyzer() with its models loaded),
\*      "standard" (_load_ml_models caught a loading error or found no model:
\*                  enhanced_mode stays False, AudioAnalyzer() returns),
\*      "raises"   (AudioAnalyzer() raised: logged and raised again; the
\*                  process exits and the pool is broken)
InitWorkerProcess(w, how) ==
    /\ pc \notin {"init", "stopped"}
    /\ ~executor.broken
    /\ w \in DOMAIN executor.procs
    /\ executor.procs[w] = NoProcess
    /\ executor' =
         IF how = "raises"
         THEN [executor EXCEPT !.broken = TRUE,
                               !.procs[w] = [NoProcess EXCEPT !.inits = 1]]
         ELSE [executor EXCEPT !.procs[w] = [alive |-> TRUE, analyzer |-> how,
                                             inits |-> 1, ran |-> 0]]
    /\ ops' = <<>>
    /\ UNCHANGED <<store, redis, pc, running, is_paused, consecutive_empty,
                   polled, NUM_WORKERS, futures, source, abandoned, draining,
                   detached, res, env>>

\* worker process w takes a call of _analyze_track_in_process from the pool
\* and runs it on its _process_analyzer
AnalyzeTrackInProcess(w) ==
    /\ pc \notin {"init", "stopped"}
    /\ ~executor.broken
    /\ w \in DOMAIN executor.procs
    /\ executor.procs[w].alive
    /\ executor.procs[w].ran < MaxRuns
    /\ executor' = [executor EXCEPT !.procs[w].ran = @ + 1]
    /\ ops' = <<>>
    /\ UNCHANGED <<store, redis, pc, running, is_paused, consecutive_empty,
                   polled, NUM_WORKERS, futures, source, abandoned, draining,
                   detached, res, env>>

\* the finally block, once executor.shutdown(wait=True) can return
Finally ==
    /\ UNCHANGED polled
    /\ pc = "finally"
    /\ Total(abandoned) = 0
    /\ executor' = [executor EXCEPT !.shut = TRUE]
    /\ pubsub' = IF pubsub = "subscribed" THEN "closed" ELSE pubsub
    /\ conn' = NULL
    /\ ops' = <<"pool_shutdown_wait">>
              \o (IF pubsub = "subscribed" THEN <<"pubsub_close">> ELSE <<>>)
              \o (IF conn = "open" THEN <<"db_close">> ELSE <<>>)
    /\ pc' = "stopped"
    /\ UNCHANGED <<store, redis, running, is_paused, consecutive_empty,
                   NUM_WORKERS, futures, source, abandoned, draining, detached,
                   env>>

\* ------------------------------------------------------ environment
\* a producer pushes a job for track t
Push(t) ==
    /\ UNCHANGED polled
    /\ pushLeft > 0
    /\ queue' = Append(queue, t)
    /\ pushLeft' = pushLeft - 1
    /\ ops' = <<>>
    /\ UNCHANGED <<store, control, pc, running, is_paused, consecutive_empty,
                   pool, res, msgLeft, slowLeft, crashLeft>>

\* a producer pushes an entry that is not a job
PushBad ==
    /\ pushLeft > 0
    /\ queue' = Append(queue, BadEntry)
    /\ pushLeft' = pushLeft - 1
    /\ ops' = <<>>
    /\ UNCHANGED <<store, control, pc, running, is_paused, consecutive_empty,
                   polled, pool, res, msgLeft, slowLeft, crashLeft>>

\* somebody publishes on the control channel
Publish(m) ==
    /\ UNCHANGED polled
    /\ msgLeft > 0
    /\ pubsub = "subscribed"
    /\ control' = Append(control, m)
    /\ msgLeft' = msgLeft - 1
    /\ ops' = <<>>
    /\ UNCHANGED <<store, queue, pc, running, is_paused, consecutive_empty,
                   pool, res, pushLeft, slowLeft, crashLeft>>

\* the store drops the connection while the broken-pool handler sleeps
StoreLost ==
    /\ pc = "recreate"
    /\ conn = "open"
    /\ conn' = "lost"
    /\ ops' = <<>>
    /\ UNCHANGED <<store, redis, pc, running, is_paused, consecutive_empty,
                   polled, pool, pubsub, env>>

\* the store drops the connection while a batch is awaited
StoreLostInBatch ==
    /\ pc = "await"
    /\ conn = "open"
    /\ crashLeft > 0
    /\ crashLeft' = crashLeft - 1
    /\ conn' = "lost"
    /\ ops' = <<>>
    /\ UNCHANGED <<store, redis, pc, running, is_paused, consecutive_empty,
                   polled, pool, pubsub, pushLeft, msgLeft, slowLeft>>

\* BATCH_TIMEOUT_MINUTES pass
TimePasses ==
    /\ UNCHANGED flags
    /\ UNCHANGED polled
    /\ tracks' = Elapse(tracks)
    /\ tracks' # tracks
    /\ ops' = <<>>
    /\ UNCHANGED <<failures, redis, pc, running, is_paused, consecutive_empty,
                   pool, res, env>>

\* an execution nobody awaits any more ends; its result is discarded
AbandonedFinish(t) ==
    /\ UNCHANGED polled
    /\ abandoned[t] > 0
    /\ abandoned' = [abandoned EXCEPT ![t] = @ - 1]
    /\ ops' = <<>>
    /\ UNCHANGED <<store, redis, pc, running, is_paused, consecutive_empty,
                   NUM_WORKERS, executor, futures, source, draining, detached,
                   res, env>>

DrainFinish(t) ==
    /\ UNCHANGED polled
    /\ draining[t] > 0
    /\ draining' = [draining EXCEPT ![t] = @ - 1]
    /\ ops' = <<>>
    /\ UNCHANGED <<store, redis, pc, running, is_paused, consecutive_empty,
                   NUM_WORKERS, executor, futures, source, abandoned, detached,
                   res, env>>

DetachedFinish(t) ==
    /\ UNCHANGED polled
    /\ detached[t] > 0
    /\ detached' = [detached EXCEPT ![t] = @ - 1]
    /\ ops' = <<>>
    /\ UNCHANGED <<store, redis, pc, running, is_paused, consecutive_empty,
                   NUM_WORKERS, executor, futures, source, abandoned, draining,
                   res, env>>

Next ==
    \/ Start
    \/ LoopExit
    \/ ControlPoll
    \/ ResizeDone
    \/ Work
    \/ \E t \in Tasks, o \in {"ok", "error"} : Complete(t, o)
    \/ BatchTimeout
    \/ Crash
    \/ Finally
    \/ \E t \in Tasks : Push(t)
    \/ \E m \in Payloads : Publish(m)
    \/ TimePasses
    \/ \E t \in Tasks : AbandonedFinish(t)
    \/ \E t \in Tasks : DrainFinish(t)
    \/ \E t \in Tasks : DetachedFinish(t)
    \/ OnBrokenPool
    \/ StoreLost

Spec == Init /\ [][Next]_vars

\* ------------------------------------------- narrower environments
\* dispatch, deadlines and sweeps, no control channel traffic
InitDispatch ==
    /\ InitStore
    /\ InitWorker
    /\ Budget(MaxPushes, 0, MaxSlow, 0)

NextDispatch ==
    \/ Start
    \/ ControlPoll
    \/ Work
    \/ \E t \in Tasks, o \in {"ok", "error"} : Complete(t, o)
    \/ BatchTimeout
    \/ \E t \in Tasks : Push(t)
    \/ TimePasses
    \/ \E t \in Tasks : AbandonedFinish(t)

SpecDispatch == InitDispatch /\ [][NextDispatch]_vars

\* a burst of pushes, every execution in time
InitQueue ==
    /\ InitStore
    /\ InitWorker
    /\ Budget(MaxBurst, 0, 0, 0)

NextQueue ==
    \/ Start
    \/ ControlPoll
    \/ Work
    \/ \E t \in Tasks, o \in {"ok", "error"} : Complete(t, o)
    \/ \E t \in Tasks : Push(t)
    \/ TimePasses

SpecQueue == InitQueue /\ [][NextQueue]_vars

\* the control channel in use, workers that may die
InitControl ==
    /\ InitStore
    /\ InitWorker
    /\ Budget(0, MaxMsgs, 0, MaxCrashes)

NextControl ==
    \/ Start
    \/ LoopExit
    \/ ControlPoll
    \/ ResizeDone
    \/ Work
    \/ \E t \in Tasks, o \in {"ok", "error"} : Complete(t, o)
    \/ Crash
    \/ Finally
    \/ \E m \in Payloads : Publish(m)

SpecControl == InitControl /\ [][NextControl]_vars

\* the loop left alone: no pushes, no control traffic, workers that always
\* return, where every dispatch of a track may outlast the batch deadline
InitFair ==
    /\ InitStore
    /\ InitWorker
    /\ Budget(0, 0, MAX_RETRIES + 1, 0)

\* the await of a batch ends: a future is yielded or the deadline expires
AwaitStep ==
    \/ \E t \in Tasks, o \in {"ok", "error"} : Complete(t, o)
    \/ BatchTimeout

NextFair ==
    \/ Start
    \/ ControlPoll
    \/ Work
    \/ AwaitStep
    \/ TimePasses
    \/ \E t \in Tasks : AbandonedFinish(t)

\* the loop is one thread that always takes its next step, time passes, and
\* an execution left on the pool returns in the end
FairLoop ==
    /\ WF_vars(Start)
    /\ WF_vars(ControlPoll)
    /\ WF_vars(Work)
    /\ WF_vars(AwaitStep)
    /\ WF_vars(TimePasses)

FairWorkers == \A t \in Tasks : WF_vars(AbandonedFinish(t))

SpecFair == InitFair /\ [][NextFair]_vars /\ FairLoop /\ FairWorkers

\* a stop command, with a batch that may outlast the deadline on workers
\* that may never return
StopMsg == [kind |-> "stop", count |-> 0]

InitStop ==
    /\ InitStore
    /\ InitWorker
    /\ Budget(0, MaxMsgs, MaxSlow, 0)

NextStop ==
    \/ Start
    \/ LoopExit
    \/ ControlPoll
    \/ Work
    \/ AwaitStep
    \/ Finally
    \/ Publish(StopMsg)
    \/ TimePasses
    \/ \E t \in Tasks : AbandonedFinish(t)

SpecStop ==
    /\ InitStop
    /\ [][NextStop]_vars
    /\ FairLoop
    /\ WF_vars(LoopExit)
    /\ WF_vars(Finally)

\* resizes while executions abandoned at the batch deadline are still running
ResizeMsgs == {m \in Payloads : m.kind = "set_workers"}

InitResize ==
    /\ InitStore
    /\ InitWorker
    /\ Budget(0, MaxMsgs, MaxSlow, 0)

NextResize ==
    \/ Start
    \/ ControlPoll
    \/ ResizeDone
    \/ Work
    \/ AwaitStep
    \/ \E m \in ResizeMsgs : Publish(m)
    \/ \E t \in Tasks : AbandonedFinish(t)
    \/ \E t \in Tasks : DrainFinish(t)

SpecResize == InitResize /\ [][NextResize]_vars

\* every configuration source: a stored setting, an environment value, neither
\* (an environment value below 1 makes ProcessPoolExecutor raise before the
\* loop is entered; the ones here give a pool)
ConfigValues == {0, 2, 12}
EnvValues == {2, 12}
StartupWorkers ==
    {GetWorkersFromDb(s, e) :
        s \in {Unset} \cup {Given(v) : v \in ConfigValues},
        e \in {Unset} \cup {Given(v) : v \in EnvValues}}

InitConfig ==
    /\ InitStore
    /\ InitLoop
    /\ NUM_WORKERS \in StartupWorkers
    /\ Budget(0, MaxMsgs, 0, MaxCrashes)

SpecConfig == InitConfig /\ [][NextControl]_vars

\* workers that die under a batch, jobs pushed afterwards, a store that may
\* drop the connection, and a stop command
InitBreak ==
    /\ InitStore
    /\ InitWorker
    /\ Budget(MaxPushes, MaxMsgs, 0, MaxCrashes)

NextBreak ==
    \/ Start
    \/ LoopExit
    \/ ControlPoll
    \/ Work
    \/ \E t \in Tasks, o \in {"ok", "error"} : Complete(t, o)
    \/ OnBrokenPool
    \/ Crash
    \/ Finally
    \/ \E t \in Tasks : Push(t)
    \/ Publish(StopMsg)
    \/ StoreLost

SpecBreak == InitBreak /\ [][NextBreak]_vars

\* the failed-retry sweep on its own, applied to any "Track" table
Statuses == {"pending", "processing", "completed", "failed"}
Rows ==
    [analysisStatus : Statuses, analysisRetryCount : 0..(MAX_RETRIES + 1),
     analysisError : {NULL, "error"}, startedAge : {NoTime},
     updatedAge : {0, MaxAge}]

InitRows ==
    /\ tracks \in [Tasks -> Rows]
    /\ failures = Zero
    /\ flags = [t \in Tasks |-> Unflagged]
    /\ InitWorker
    /\ Budget(0, 0, 0, 0)

RetrySweepStep ==
    /\ UNCHANGED flags
    /\ ops = <<>>
    /\ tracks' = RetryFailedTracks(tracks)
    /\ ops' = <<"retry_sweep">>
    /\ UNCHANGED <<failures, redis, pc, running, is_paused, consecutive_empty,
                   polled, pool, res, env>>

SpecRetrySweep == InitRows /\ [][RetrySweepStep]_vars

\* the failure path on its own, applied to any track and any ledger row: none
\* yet, or one with a count, acknowledged (resolved, skipped) in the UI or not
FlagRows == [resolved : BOOLEAN, skipped : BOOLEAN]

InitFailure ==
    /\ tracks \in [Tasks -> Rows]
    /\ failures \in [Tasks -> 0..MAX_RETRIES]
    /\ flags \in [Tasks -> FlagRows]
    /\ \A t \in Tasks : failures[t] = 0 => flags[t] = Unflagged
    /\ InitWorker
    /\ Budget(0, 0, 0, 0)

SaveFailedStep(t) ==
    /\ ops = <<>>
    /\ tracks' = SaveFailedTrack(tracks, t)
    /\ failures' = SaveFailedLedger(failures, t)
    /\ flags' = SaveFailedFlags(flags, t)
    /\ ops' = <<"save_failed">>
    /\ UNCHANGED <<redis, pc, running, is_paused, consecutive_empty, polled,
                   pool, res, env>>

NextFailure == \E t \in Tasks : SaveFailedStep(t)

SpecFailure == InitFailure /\ [][NextFailure]_vars

\* one intake, from any push queue and any "Track" table, on a running
\* worker with a healthy pool
Queues == UNION {[1..n -> Tasks] : n \in 0..MaxQueueLen}

InitIntake ==
    /\ tracks \in [Tasks -> Rows]
    /\ failures = Zero
    /\ flags = [t \in Tasks |-> Unflagged]
    /\ queue \in Queues
    /\ control = <<>>
    /\ pc = "work"
    /\ running = TRUE
    /\ is_paused = FALSE
    /\ consecutive_empty = 0
    /\ polled = "none"
    /\ NUM_WORKERS = DEFAULT_WORKERS
    /\ executor = NewPool(DEFAULT_WORKERS)
    /\ pubsub = "subscribed"
    /\ conn = "open"
    /\ futures = Zero
    /\ source = NULL
    /\ abandoned = Zero
    /\ draining = Zero
    /\ detached = Zero
    /\ ops = <<>>
    /\ Budget(0, 0, 0, 0)

SpecIntake == InitIntake /\ [][Work]_vars

\* a control channel that carries malformed and foreign payloads
InitPayload ==
    /\ InitStore
    /\ InitWorker
    /\ Budget(0, MaxMsgs, 0, 0)

NextPayload ==
    \/ Start
    \/ ControlPoll
    \/ ResizeDone
    \/ Work
    \/ \E t \in Tasks, o \in {"ok", "error"} : Complete(t, o)
    \/ \E m \in OddPayloads : Publish(m)

SpecPayload == InitPayload /\ [][NextPayload]_vars

\* resizes under a loop that always takes its next step, with executions
\* abandoned at the batch deadline that may never return
NextStall ==
    \/ Start
    \/ ControlPoll
    \/ ResizeDone
    \/ Work
    \/ AwaitStep
    \/ \E m \in ResizeMsgs : Publish(m)
    \/ TimePasses
    \/ \E t \in Tasks : AbandonedFinish(t)
    \/ \E t \in Tasks : DrainFinish(t)

SpecStall ==
    /\ InitResize
    /\ [][NextStall]_vars
    /\ FairLoop
    /\ WF_vars(ResizeDone)

\* a control channel that fails: the subscription was refused at construction
\* (self.pubsub = None), or it stands and the polls may raise
InitDegraded ==
    /\ InitStore
    /\ queue = <<>>
    /\ control = <<>>
    /\ pc = "init"
    /\ running = FALSE
    /\ is_paused = FALSE
    /\ consecutive_empty = 0
    /\ polled = "none"
    /\ NUM_WORKERS = DEFAULT_WORKERS
    /\ executor = NoExecutor
    /\ pubsub \in {NULL, "subscribed"}
    /\ conn = NULL
    /\ futures = Zero
    /\ source = NULL
    /\ abandoned = Zero
    /\ draining = Zero
    /\ detached = Zero
    /\ ops = <<>>
    /\ Budget(MaxPushes, MaxMsgs, 0, 0)

NextDegraded ==
    \/ Start
    \/ ControlPoll
    \/ ControlPollFails
    \/ Work
    \/ \E t \in Tasks, o \in {"ok", "error"} : Complete(t, o)
    \/ \E t \in Tasks : Push(t)
    \/ \E m \in Payloads : Publish(m)

SpecDegraded == InitDegraded /\ [][NextDegraded]_vars

\* ticks that fail: a queue that cannot be read, batches past the deadline,
\* a store that may refuse the reconnect
NextRecovery ==
    \/ Start
    \/ ControlPoll
    \/ Work
    \/ \E up \in BOOLEAN : IntakeFails(up)
    \/ \E t \in Tasks, o \in {"ok", "error"} : Complete(t, o)
    \/ BatchTimeout
    \/ \E t \in Tasks : Push(t)
    \/ TimePasses
    \/ \E t \in Tasks : AbandonedFinish(t)

SpecRecovery == InitDispatch /\ [][NextRecovery]_vars

\* a store whose pull query may fail
NextStoreError ==
    \/ Start
    \/ ControlPoll
    \/ Work
    \/ PullFails
    \/ \E t \in Tasks, o \in {"ok", "error"} : Complete(t, o)
    \/ \E t \in Tasks : Push(t)
    \/ TimePasses

SpecStoreError == InitQueue /\ [][NextStoreError]_vars

\* a start on the store an earlier run left behind, with control messages
\* already published
InitStartup ==
    /\ tracks \in [Tasks -> Rows]
    /\ failures = Zero
    /\ flags = [t \in Tasks |-> Unflagged]
    /\ InitWorker
    /\ Budget(MaxPushes, MaxMsgs, 0, 0)

NextStartup ==
    \/ Start
    \/ LoopExit
    \/ ControlPoll
    \/ Work
    \/ \E t \in Tasks, o \in {"ok", "error"} : Complete(t, o)
    \/ Finally
    \/ \E t \in Tasks : Push(t)
    \/ \E k \in Literals : Publish([kind |-> k, count |-> 0])

SpecStartup == InitStartup /\ [][NextStartup]_vars

\* tracks imported at any time in the past and waiting for analysis, and a
\* run of the loop so short that no time passes in it: whatever is processing
\* was marked by this run, moments ago
FreshRows ==
    {r \in Rows : r.analysisStatus = "pending" /\ r.analysisError = NULL
                  /\ r.analysisRetryCount < MAX_RETRIES}

InitFresh ==
    /\ tracks \in [Tasks -> FreshRows]
    /\ failures = Zero
    /\ flags = [t \in Tasks |-> Unflagged]
    /\ InitWorker
    /\ Budget(MaxPushes, MaxMsgs, 0, MaxCrashes)

SpecFresh == InitFresh /\ [][NextBreak]_vars

\* the stale sweep on its own, applied to any table: rows of every status and
\* retry count, with or without "analysisStartedAt", young and old
StaleRows ==
    [analysisStatus : Statuses, analysisRetryCount : 0..(MAX_RETRIES + 1),
     analysisError : {NULL, "error"},
     startedAge : {NoTime, 0, STALE_PROCESSING_MINUTES, MaxAge},
     updatedAge : {0, STALE_PROCESSING_MINUTES, MaxAge}]

InitStaleRows ==
    /\ tracks \in [Tasks -> StaleRows]
    /\ failures = Zero
    /\ flags = [t \in Tasks |-> Unflagged]
    /\ InitWorker
    /\ Budget(0, 0, 0, 0)

StaleSweepStep ==
    /\ ops = <<>>
    /\ tracks' = CleanupStaleProcessing(tracks)
    /\ ops' = <<"stale_sweep">>
    /\ UNCHANGED <<failures, flags, redis, pc, running, is_paused,
                   consecutive_empty, polled, pool, res, env>>

SpecStaleSweep == InitStaleRows /\ [][StaleSweepStep]_vars

\* a store whose UPDATE to 'processing' may fail
NextMarkError ==
    \/ Start
    \/ ControlPoll
    \/ Work
    \/ MarkFails
    \/ \E t \in Tasks, o \in {"ok", "error"} : Complete(t, o)
    \/ \E t \in Tasks : Push(t)
    \/ TimePasses

SpecMarkError == InitQueue /\ [][NextMarkError]_vars

\* a store whose statements may fail and whose connection may drop during a
\* batch
InitSaveError ==
    /\ InitStore
    /\ InitWorker
    /\ Budget(MaxBurst, 0, 0, MaxCrashes)

NextSaveError ==
    \/ Start
    \/ ControlPoll
    \/ conn # "lost" /\ Work
    \/ \E up \in BOOLEAN : WorkLost(up)
    \/ \E t \in Tasks, o \in {"ok", "error"} : conn # "lost" /\ Complete(t, o)
    \/ \E t \in Tasks : SaveFailedFails(t)
    \/ \E t \in Tasks, up \in BOOLEAN : SaveFailedLost(t, up)
    \/ StoreLostInBatch
    \/ \E t \in Tasks : Push(t)
    \/ \E t \in Tasks : AbandonedFinish(t)

SpecSaveError == InitSaveError /\ [][NextSaveError]_vars

\* pools that break, and failing ticks, after the worker count was changed
InitRecreate ==
    /\ InitStore
    /\ InitWorker
    /\ Budget(MaxPushes, MaxMsgs, 0, MaxCrashes)

NextRecreate ==
    \/ Start
    \/ ControlPoll
    \/ ResizeDone
    \/ Work
    \/ \E up \in BOOLEAN : IntakeFails(up)
    \/ \E t \in Tasks, o \in {"ok", "error"} : Complete(t, o)
    \/ OnBrokenPool
    \/ Crash
    \/ \E t \in Tasks : Push(t)
    \/ \E m \in Payloads : Publish(m)

SpecRecreate == InitRecreate /\ [][NextRecreate]_vars

\* the worker processes of the first pool, each started once and given calls
InitProcs ==
    /\ InitStore
    /\ InitWorker
    /\ Budget(0, 0, 0, 0)

NextProcs ==
    \/ Start
    \/ \E w \in 1..DEFAULT_WORKERS, how \in {"enhanced", "standard", "raises"} :
          InitWorkerProcess(w, how)
    \/ \E w \in 1..DEFAULT_WORKERS : AnalyzeTrackInProcess(w)

SpecProcs == InitProcs /\ [][NextProcs]_vars

\* a push queue that may hold entries that are not jobs
NextBadQueue ==
    \/ Start
    \/ ControlPoll
    \/ BadEntry \notin Ids(QueuedJobs(queue)) /\ Work
    \/ IntakeBad
    \/ \E t \in Tasks, o \in {"ok", "error"} : Complete(t, o)
    \/ \E t \in Tasks : Push(t)
    \/ PushBad

SpecBadQueue == InitQueue /\ [][NextBadQueue]_vars

\* batches under everything that can happen around them: control messages,
\* pushes, deadlines, dying workers
NextBatch ==
    \/ Start
    \/ ControlPoll
    \/ ResizeDone
    \/ Work
    \/ \E t \in Tasks, o \in {"ok", "error"} : Complete(t, o)
    \/ BatchTimeout
    \/ OnBrokenPool
    \/ Crash
    \/ \E t \in Tasks : Push(t)
    \/ \E m \in Payloads : Publish(m)
    \/ \E t \in Tasks : AbandonedFinish(t)
    \/ \E t \in Tasks : DrainFinish(t)

SpecBatch == Init /\ [][NextBatch]_vars

\* every writer of the retry count and every operation beside them: failing
\* and succeeding executions, deadlines, both sweeps, a pool that breaks and
\* is replaced
InitCount ==
    /\ InitStore
    /\ InitWorker
    /\ Budget(MaxPushes, 0, MaxSlow, MaxCrashes)

NextCount ==
    \/ Start
    \/ ControlPoll
    \/ Work
    \/ \E t \in Tasks, o \in {"ok", "error"} : Complete(t, o)
    \/ BatchTimeout
    \/ OnBrokenPool
    \/ Crash
    \/ \E t \in Tasks : Push(t)
    \/ TimePasses
    \/ \E t \in Tasks : AbandonedFinish(t)

SpecCount == InitCount /\ [][NextCount]_vars

\* ------------------------------------------------------------ claims
Range(s) == {s[i] : i \in 1..Len(s)}
Status(t) == tracks[t].analysisStatus
Retries(t) == tracks[t].analysisRetryCount
\* executions of t submitted to some pool and not yet finished
Unfinished(t) == futures[t] + abandoned[t] + draining[t] + detached[t]

\* C1: no double dispatch: at every instant, for every task id, at most one
\* execution of that id is submitted and not yet finished, whatever the push
\* queue holds.  The code submits one execution per queue entry, so an id
\* enqueued twice runs twice at once.
C1_NoDoubleDispatch == \A t \in Tasks : Unfinished(t) <= 1

\* C2: no task is left stuck: a task in status processing eventually leaves
\* processing, whatever its retry count and whatever the workers do.  A task
\* whose batch outlasts the deadline stays processing, and the stale sweep
\* passes over it once its retry count has reached MAX_RETRIES.
C2_ProcessingEnds ==
    \A t \in Tasks : (Status(t) = "processing") ~> (Status(t) # "processing")

\* C6: forward progress: with workers that always return and no new tasks,
\* the system comes to rest with every task completed or failed.
C6_Quiescence ==
    <>[](\A t \in Tasks : Status(t) \in {"completed", "failed"})

\* the step ran the stale-processing sweep / one of the two sweeps
StaleSweepRuns == "stale_sweep" \in Range(ops')
SweepRuns == StaleSweepRuns \/ "retry_sweep" \in Range(ops')
PermanentlyFailed(t) == Status(t) = "failed" /\ Retries(t) >= MAX_RETRIES

\* C3: the stale-processing sweep sets every task that is processing, older
\* than STALE_PROCESSING_MINUTES and below MAX_RETRIES to pending, and its
\* retry count to exactly the previous value plus one.
C3_StaleSweepEffect ==
    [][StaleSweepRuns =>
        \A t \in Tasks :
            StaleEligible(tracks[t]) =>
                /\ tracks'[t].analysisStatus = "pending"
                /\ tracks'[t].analysisRetryCount = Retries(t) + 1]_vars

\* a sweep has just requeued a stale processing track: its retry count is
\* one ahead of the failures recorded for it
C3_Witness ==
    /\ "stale_sweep" \in Range(ops)
    /\ \E t \in Tasks :
        /\ Status(t) = "pending"
        /\ Retries(t) = 1
        /\ failures[t] = 0
        /\ abandoned[t] > 0

\* C4: a task that is failed with retryCount >= MAX_RETRIES is never set to
\* pending again, and no run of the stale-processing sweep or of the
\* failed-retry sweep changes its status, retry count or error.
C4_PermanentFailureFinal ==
    [][\A t \in Tasks :
        PermanentlyFailed(t) =>
            /\ tracks'[t].analysisStatus # "pending"
            /\ (SweepRuns /\ "mark" \notin Range(ops')) =>
                /\ tracks'[t].analysisStatus = "failed"
                /\ tracks'[t].analysisRetryCount = Retries(t)
                /\ tracks'[t].analysisError = tracks[t].analysisError]_vars

\* both sweeps have just run over a permanently failed track
C4_Witness ==
    /\ "retry_sweep" \in Range(ops)
    /\ "stale_sweep" \in Range(ops)
    /\ \E t \in Tasks : PermanentlyFailed(t) /\ tracks[t].analysisError = "error"

\* C5: whenever a task is failed with retryCount >= MAX_RETRIES, its
\* FailureRecord exists and carries the same retryCount as the task, for every
\* history of failures, timeouts and stale sweeps.  The stale sweep adds to
\* the task's count and not to the record's.
C5_LedgerAgrees ==
    \A t \in Tasks : PermanentlyFailed(t) => failures[t] = Retries(t)

\* a Stop message has been consumed by the control poll
StopConsumed == pc # "init" /\ ~running
DispatchOps == {"intake", "mark", "submit"}

\* C7: once Stop has been consumed, no batch is fetched and no task is marked
\* processing or submitted, neither later in the same tick nor in a later
\* tick.  The loop tests self.running only at the top of a tick, so the tick
\* that consumed Stop while running still runs process_batch_parallel.
C7_StopHaltsDispatch ==
    [][StopConsumed => Range(ops') \cap DispatchOps = {}]_vars

\* C8: after Stop is consumed the orchestrator eventually reaches Stopped;
\* the finally block waits for the pool, then closes the control subscription
\* and then the store connection, each once; Stopped is terminal.
C8_StopShutdown ==
    /\ StopConsumed ~> (pc = "stopped")
    /\ [][pc' = "stopped" /\ pc # "stopped" =>
            /\ Total(abandoned) = 0
            /\ ops' = <<"pool_shutdown_wait", "pubsub_close", "db_close">>
            /\ executor'.shut /\ pubsub' = "closed" /\ conn' = NULL]_vars
    /\ [][pc = "stopped" =>
            UNCHANGED <<pc, running, executor, pubsub, conn>>]_vars

WorkExists == queue # <<>> \/ \E t \in Tasks : Status(t) = "pending"
Executions == <<futures, abandoned, draining, detached>>

\* the parts of C9 on which the claim and the code agree: a paused tick
\* fetches, marks and submits nothing; consuming Pause touches no task and no
\* execution; consuming Resume leaves the tick unpaused and on its way to the
\* intake
PauseHolds ==
    /\ (pc = "work" /\ is_paused) =>
            /\ Range(ops') \cap DispatchOps = {}
            /\ UNCHANGED <<tracks, failures, queue, Executions>>
    /\ (pc = "poll" /\ "pause" \in Range(ops')) =>
            /\ is_paused'
            /\ UNCHANGED <<tracks, failures, queue, Executions, executor>>
    /\ (pc = "poll" /\ "resume" \in Range(ops')) =>
            /\ ~is_paused'
            /\ pc' = "work"
            /\ polled' = "resume"

\* the rest of a tick that consumed Resume
ResumedTick == pc = "work" /\ polled = "resume" /\ pc' # "work"

\* C9: in every tick that is paused after the control poll no batch is pulled
\* and no task is marked processing or submitted; Pause never aborts or fails
\* a dispatched task; after Resume is consumed, dispatch happens again in that
\* same tick if work exists.
C9_PauseResume ==
    [][/\ PauseHolds
       /\ (ResumedTick /\ WorkExists) => "submit" \in Range(ops')]_vars

\* a step of the control poll that consumed a set_workers message
SetWorkersStep == pc = "poll" /\ "set_workers" \in Range(ops')

\* C10: SetWorkers(c) with c clamped into [1,8]: when that equals the current
\* pool size nothing is created or shut down and the pool is unchanged; when
\* it differs, exactly one pool of the clamped size is created.  Either way the
\* pool size is the clamped count afterwards, so the same message applied
\* again falls in the first case.
C10_SetWorkersIdempotent ==
    [][SetWorkersStep =>
        LET c == Max(1, Min(8, Head(control).count))
        IN  /\ NUM_WORKERS' = c
            /\ executor'.max_workers = c
            /\ c = executor.max_workers =>
                    /\ executor' = executor
                    /\ ops' = <<"set_workers">>
                    /\ pc' = "work"
                    /\ UNCHANGED Executions
            /\ c # executor.max_workers =>
                    /\ executor' = NewPool(c)
                    /\ ops' = <<"set_workers", "new_pool">>]_vars

\* the same SetWorkers has been consumed a second time, and did nothing
C10_Witness ==
    /\ polled = "set_workers"
    /\ ops = <<"set_workers">>
    /\ pc = "work"
    /\ NUM_WORKERS = MAX_WORKERS
    /\ msgLeft = 0

\* C11: on a resize to a different size the new pool is created first, every
\* execution still on the old pool (the ones abandoned at a deadline) is waited
\* for, and the old pool is released only when none is left; an execution
\* leaves the drain only by ending.
C11_ResizeLosesNoWork ==
    [][/\ (pc = "poll" /\ pc' = "resize_wait") =>
            /\ executor' = NewPool(NUM_WORKERS')
            /\ executor' # executor
            /\ draining' = Plus(draining, abandoned)
            /\ abandoned' = Zero
            /\ ops' = <<"set_workers", "new_pool">>
       /\ (pc = "resize_wait" /\ pc' # "resize_wait") =>
            /\ Total(draining) = 0
            /\ pc' = "work"
            /\ ops' = <<"pool_shutdown_wait">>
       /\ \A t \in Tasks : draining'[t] < draining[t] =>
            /\ draining'[t] = draining[t] - 1
            /\ pc' = pc
            /\ UNCHANGED <<tracks, failures>>]_vars

\* a resize has its new pool and is waiting for an abandoned execution
C11_Witness ==
    /\ pc = "resize_wait"
    /\ Total(draining) > 0
    /\ executor.max_workers = MAX_WORKERS
    /\ ~executor.shut

\* C12: in every reachable state the configured worker count, and the size of
\* the pool built from it, lies in [1,8], whatever the configuration source
\* and whatever SetWorkers messages arrive.
C12_PoolSizeBound ==
    /\ NUM_WORKERS \in MIN_WORKERS..MAX_WORKERS
    /\ executor # NoExecutor => executor.max_workers \in MIN_WORKERS..MAX_WORKERS

\* C13: no failure of a tick or of its handlers ends the loop: the loop is
\* left, and Stopped reached, only after a Stop command has been consumed.
C13_LoopNeverDies == pc \in {"finally", "stopped"} => ~running

\* C14: pool breakage observed while a batch is submitted or awaited, on
\* either intake path, is answered by a recreated pool and a stale sweep
\* before the next batch.  Workers die here only under an awaited batch, so
\* every breakage is observed in its tick, and the next tick must find a pool
\* that works.
C14_BrokenPoolRecovered == pc \in {"poll", "work"} => ~executor.broken

\* C15: a task becomes completed or failed only from processing, and becomes
\* processing only from pending, also for ids taken from the push queue.
C15_TransitionDiscipline ==
    [][\A t \in Tasks :
        LET old == tracks[t].analysisStatus
            new == tracks'[t].analysisStatus
        IN  /\ (new \in {"completed", "failed"} /\ new # old) => old = "processing"
            /\ (new = "processing" /\ new # old) => old = "pending"]_vars

\* the await of a batch ended at its deadline
DeadlineExpires == pc = "await" /\ "timeout" \in Range(ops')

\* C16: every task of a batch whose result is not there when the deadline ends
\* the await goes through the failure path (status failed, retryCount + 1,
\* FailureRecord upserted) like a task whose execution reported an error, and
\* its execution is abandoned, not cancelled.
C16_TimeoutIsFailure ==
    [][DeadlineExpires => \A t \in Tasks : futures[t] > 0 =>
        /\ tracks'[t].analysisStatus = "failed"
        /\ tracks'[t].analysisRetryCount = Retries(t) + 1
        /\ failures'[t] = failures[t] + 1
        /\ abandoned'[t] = abandoned[t] + futures[t]]_vars

\* one execution of t leaves the awaited batch with its one terminal write
TerminalWrite(t) ==
    /\ futures'[t] = futures[t] - 1
    /\ ops' \in {<<"save_results">>, <<"save_failed">>}
    /\ tracks'[t].analysisStatus \in {"completed", "failed"}

\* C17: for every dispatch of a task exactly one terminal write (completed, or
\* failed through the failure path) is applied to it, never zero and never
\* two, in whatever order the executions of the batch complete: an execution
\* stops being awaited only together with its single terminal write.
C17_ExactlyOnceTerminal ==
    [][\A t \in Tasks : futures'[t] < futures[t] => TerminalWrite(t)]_vars

\* C18: the failed-retry sweep sets every task that is failed with retryCount
\* below the maximum to pending, clears its error and keeps its retryCount;
\* it changes no task that is pending, processing, completed, or failed with
\* retryCount at or above the maximum.
C18_RetrySweepEffect ==
    [][ops' = <<"retry_sweep">> => \A t \in Tasks :
        IF Status(t) = "failed" /\ Retries(t) < MAX_RETRIES
        THEN tracks'[t] = [tracks[t] EXCEPT !.analysisStatus = "pending",
                                            !.analysisError = NULL]
        ELSE tracks'[t] = tracks[t]]_vars

\* the sweep has run and left a task pending, its error cleared, its
\* retryCount still one short of the maximum
C18_Witness ==
    /\ ops = <<"retry_sweep">>
    /\ \E t \in Tasks :
        /\ Status(t) = "pending"
        /\ Retries(t) = MAX_RETRIES - 1
        /\ tracks[t].analysisError = NULL

\* C19: one run of the failure path for a task adds exactly 1 to its
\* retryCount, sets status failed and records the error; it creates the
\* FailureRecord with count 1 on the first failure, adds exactly 1 to the
\* record's count on each later one, and leaves resolved and skipped false.
\* No record's count decreases, and no other task is touched.
C19_FailurePathEffect ==
    [][ops' = <<"save_failed">> =>
        /\ \E t \in Tasks :
            /\ tracks' = [tracks EXCEPT ![t] =
                    [@ EXCEPT !.analysisStatus = "failed",
                              !.analysisError = "error",
                              !.analysisRetryCount = Retries(t) + 1]]
            /\ failures' = [failures EXCEPT ![t] = failures[t] + 1]
            /\ ~flags'[t].resolved /\ ~flags'[t].skipped
            /\ \A u \in Tasks \ {t} : flags'[u] = flags[u]
        /\ \A t \in Tasks : failures'[t] >= failures[t]]_vars

\* the failure path has run on a task that had failed before
C19_Witness ==
    /\ ops = <<"save_failed">>
    /\ \E t \in Tasks :
        /\ Status(t) = "failed"
        /\ Retries(t) = MAX_RETRIES
        /\ failures[t] = MAX_RETRIES
        /\ flags[t] = Unflagged

\* the pending tasks, and the entries at the head of the queue that fit a batch
Pending == {t \in Tasks : Status(t) = "pending"}
HeadCount == Min(Len(queue), BATCH_SIZE)
HeadOf(t) == Cardinality({i \in 1..HeadCount : queue[i] = t})

Consumes == pc = "poll" /\ control # <<>> /\ control' = Tail(control)

\* C21: a payload that is neither pause, resume, stop nor a set_workers
\* command with an integer count (other JSON, set_workers with a missing or
\* non-integer count, other text) is ignored: the poll leaves the paused flag,
\* the running flag, the worker count and the pool as they were and the tick
\* goes on.
C21_UnrecognizedIgnored ==
    [][(Consumes /\ Head(control) \in OddPayloads) =>
        /\ UNCHANGED <<is_paused, running, NUM_WORKERS, executor>>
        /\ pc' = "work"]_vars

\* C22: a SetWorkers(n) consumed while paused resizes the pool exactly as it
\* does while running (what it does depends on n and on the current count
\* only), and changes neither the paused flag nor the running flag.
C22_SetWorkersWhilePaused ==
    [][SetWorkersStep =>
        LET n == Max(MIN_WORKERS, Min(MAX_WORKERS, Head(control).count))
        IN  /\ UNCHANGED <<is_paused, running>>
            /\ NUM_WORKERS' = n
            /\ executor' = IF n = NUM_WORKERS THEN executor ELSE NewPool(n)
            /\ pc' = IF n = NUM_WORKERS THEN "work" ELSE "resize_wait"]_vars

\* a paused worker has built the new pool of a SetWorkers and is still paused
C22_Witness ==
    /\ is_paused
    /\ running
    /\ polled = "set_workers"
    /\ pc = "resize_wait"
    /\ ops = <<"set_workers", "new_pool">>
    /\ executor = NewPool(MAX_WORKERS)

\* C23: no step stalls the loop: every tick comes to its end, also a tick
\* that resizes the pool or awaits a batch, even when a worker execution hangs
\* forever; so a published control message is consumed in the end.
C23_NoStall ==
    /\ (pc \in {"work", "resize_wait", "await"}) ~> (pc = "poll")
    /\ (control # <<>>) ~> (control = <<>>)

\* the orchestrator's own state, which only a control message may change
ControlState == <<is_paused, running, NUM_WORKERS, executor>>

\* C24: when the subscription failed, or a poll raises, no control message
\* changes the orchestrator's state and the tick goes on to pull, dispatch and
\* persist as it does with no message: the poll consumes nothing, and the
\* intake of that tick runs.
C24_ControlDegrades ==
    [][/\ (pc = "poll" /\ pc' # "poll" /\ (pubsub = NULL \/ ops' = <<"poll_error">>)) =>
            /\ UNCHANGED <<ControlState, control, tracks, failures, queue>>
            /\ pc' = "work"
            /\ polled' = "none"
       /\ (pc # "init" /\ pubsub = NULL) => UNCHANGED <<ControlState, control>>
       /\ (pc = "work" /\ polled = "none" /\ ~is_paused /\ pc' # "work") =>
            "intake" \in Range(ops')]_vars

\* with messages waiting behind a poll that raised, the tick has dispatched
C24_Witness ==
    /\ pubsub = "subscribed"
    /\ control # <<>>
    /\ msgLeft = MaxMsgs - 1
    /\ polled = "none"
    /\ pc = "await"
    /\ ops = <<"intake", "mark", "submit">>
    /\ running /\ ~is_paused

\* the tick found no batch: an empty intake and the idle sleep
EmptyBatch == Len(ops') >= 2 /\ SubSeq(ops', 1, 2) = <<"intake", "sleep">>

\* the tick ran both sweeps inside the loop
BothSweeps ==
    /\ pc # "init"
    /\ "stale_sweep" \in Range(ops')
    /\ "retry_sweep" \in Range(ops')

\* C25: the idle counter counts empty batches only, every batch that was not
\* empty leaves it at zero when it ends, and both sweeps run in the loop, with
\* the counter reset, exactly on the empty batch that brings the count to the
\* idle threshold.
C25_IdleReclamation ==
    [][/\ consecutive_empty' > consecutive_empty => EmptyBatch
       /\ (pc = "await" /\ pc' # "await") => consecutive_empty' = 0
       /\ BothSweeps <=> (EmptyBatch /\ consecutive_empty = IDLE_THRESHOLD - 1)
       /\ BothSweeps => consecutive_empty' = 0]_vars

\* the tick ended in the except Exception handler of the loop
ErrorTick ==
    /\ pc \in {"work", "await"}
    /\ Len(ops') > 0
    /\ \/ ops'[1] = "lpop_error"
       \/ ops'[1] = "timeout" /\ source = "queue"

RecoverySteps ==
    <<"db_close", "db_connect", "stale_sweep", "retry_sweep", "health_check">>

StoreErrorTick == "query_error" \in Range(ops')

\* C27: a tick in which a store operation fails rolls the transaction back and
\* ends with the backoff sleep.
C27_StoreErrorBackoff ==
    [][StoreErrorTick =>
        /\ "rollback" \in Range(ops')
        /\ ops'[Len(ops')] = "sleep"]_vars

StartupSteps == <<"db_connect", "stale_sweep", "retry_sweep", "new_pool">>

\* C28: until start() has run nothing is polled, pulled or submitted and there
\* is no pool; start() runs the stale sweep, then the retry sweep, then builds
\* the pool, and leaves the orchestrator running and not paused with no
\* message consumed and no task submitted; executions exist only on a pool.
C28_StartupOrder ==
    [][/\ pc = "init" =>
            /\ executor = NoExecutor
            /\ Total(futures) = 0
            /\ ~is_paused
            /\ polled = "none"
       /\ (pc = "init" /\ pc' = "init") =>
            /\ UNCHANGED <<tracks, failures, executor, futures, running, is_paused,
                           polled>>
            /\ Len(control') >= Len(control)
            /\ Len(queue') >= Len(queue)
       /\ (pc = "init" /\ pc' # "init") =>
            /\ ops' = StartupSteps
            /\ tracks' = RetryFailedTracks(CleanupStaleProcessing(tracks))
            /\ executor' = NewPool(NUM_WORKERS)
            /\ running' /\ ~is_paused'
            /\ pc' = "poll"
            /\ UNCHANGED <<control, queue, futures, polled, failures>>
       /\ "submit" \in Range(ops') => executor # NoExecutor
       /\ Total(futures') > 0 => executor' # NoExecutor]_vars

\* start() has run on a store with work left over from an earlier run
C28_Witness ==
    /\ ops = StartupSteps
    /\ pc = "poll"
    /\ running /\ ~is_paused
    /\ executor = NewPool(NUM_WORKERS)
    /\ \E t \in Tasks : Status(t) = "pending" /\ Retries(t) > 0

\* C29: the stale sweep never resets to pending a task the orchestrator
\* marked processing less than STALE_PROCESSING_MINUTES before.  Where no time
\* passes after the start, that is every task that is processing: no step
\* takes a task from processing back to pending.
C29_FreshNotReclaimed ==
    [][\A t \in Tasks :
         Status(t) = "processing" => tracks'[t].analysisStatus # "pending"]_vars

\* minutes since the row was started, or updated when it has no start time
RowAge(row) == IF row.startedAge # NoTime THEN row.startedAge ELSE row.updatedAge

\* C30: the stale sweep leaves unchanged every row that is pending, completed
\* or failed, every processing row not older than the threshold, and every
\* processing row whose retry count is at or above MAX_RETRIES.
C30_StaleSweepFrame ==
    [][\A t \in Tasks :
         (\/ Status(t) \in {"pending", "completed", "failed"}
          \/ RowAge(tracks[t]) <= STALE_PROCESSING_MINUTES
          \/ Retries(t) >= MAX_RETRIES)
         => tracks'[t] = tracks[t]]_vars

\* the sweep has run over a stale processing row at the ceiling, still
\* processing
C30_Witness ==
    /\ ops = <<"stale_sweep">>
    /\ \E t \in Tasks :
         /\ Status(t) = "processing"
         /\ RowAge(tracks[t]) > STALE_PROCESSING_MINUTES
         /\ Retries(t) >= MAX_RETRIES

\* C31: every task's retry count is at most MAX_RETRIES in every reachable
\* state, and no task is dispatched (marked and submitted) with a retry count
\* that has already reached MAX_RETRIES.
C31_RetryCeiling ==
    /\ \A t \in Tasks : Retries(t) <= MAX_RETRIES
    /\ \A t \in Tasks : futures[t] > 0 => Retries(t) < MAX_RETRIES

\* C32: in a tick with a batch, every task of the batch is processing in the
\* store, by one committed update, when the batch is submitted; every result
\* obtained from the await is persisted as it is obtained; and a batch is
\* pulled only when nothing of the last one is awaited any more.
C32_DispatchOrder ==
    [][/\ "submit" \in Range(ops') =>
            \A t \in Tasks : futures'[t] > 0 =>
                tracks'[t].analysisStatus = "processing"
       /\ \A t \in Tasks : futures'[t] < futures[t] =>
            tracks'[t].analysisStatus \in {"completed", "failed"}
       /\ "intake" \in Range(ops') => Total(futures) = 0]_vars

\* a store operation of the failure path raised
FailurePathRaises == pc = "await" /\ "save_error" \in Range(ops')

\* C33: when a store operation inside the failure path raises, the task's
\* row and the ledger are as they were before (nothing of the failure path is
\* committed), and the error stays inside the failure path: the await goes on
\* and the loop's error handler does not run.
C33_FailurePathAtomic ==
    [][FailurePathRaises =>
        /\ UNCHANGED <<tracks, failures, flags>>
        /\ ops' = <<"save_error", "rollback">>
        /\ \E t \in Tasks : futures' = [futures EXCEPT ![t] = @ - 1]
        /\ UNCHANGED abandoned]_vars

\* _recreate_pool has built its pool in this step
Recreates == pc \in {"recreate", "work", "await"} /\ "new_pool" \in Range(ops')

\* C34: after a recreate the pool is a fresh one of the worker count
\* configured at that moment, the step does not wait for the old pool, and
\* the paused flag, the running flag and the worker count are as before.
C34_RecreateKeepsSize ==
    [][Recreates =>
        /\ executor' = NewPool(NUM_WORKERS)
        /\ "pool_shutdown_wait" \notin Range(ops')
        /\ pc' # "resize_wait"
        /\ UNCHANGED <<is_paused, running, NUM_WORKERS, draining>>]_vars

\* a recreate after the worker count was changed by a SetWorkers
C34_Witness ==
    /\ ops = <<"new_pool", "stale_sweep">>
    /\ NUM_WORKERS # DEFAULT_WORKERS
    /\ executor = NewPool(NUM_WORKERS)

\* what the message m makes of the paused flag, the running flag and the
\* worker count
EffectOf(m) ==
    <<IF m.kind = "pause" THEN TRUE ELSE IF m.kind = "resume" THEN FALSE
      ELSE is_paused,
      IF m.kind = "stop" THEN FALSE ELSE running,
      IF m.kind = "set_workers" THEN ClampWorkers(m.count) ELSE NUM_WORKERS>>

\* C35: a tick consumes at most one control message, the oldest one; the
\* message takes effect in that step and in no other: the channel only grows
\* at its tail and shrinks by its head, once per poll, and the paused flag,
\* the running flag and the worker count change only in the step that
\* consumes a message, to what that message says.
C35_OneMessagePerTick ==
    [][/\ control' # control =>
            \/ \E m \in Payloads : control' = Append(control, m)
            \/ /\ Consumes
               /\ pc' # "poll"
               /\ polled' = Head(control).kind
               /\ <<is_paused', running', NUM_WORKERS'>> = EffectOf(Head(control))
       /\ (pc # "init" /\ <<is_paused', running', NUM_WORKERS'>>
                           # <<is_paused, running, NUM_WORKERS>>) => Consumes
       /\ (pc # "poll" /\ pc' # "poll") => Len(control') >= Len(control)]_vars

\* of two messages published the first has been consumed by this tick's poll
\* and the second waits for the next tick
C35_Witness ==
    /\ pc = "work"
    /\ polled # "none"
    /\ msgLeft = 0
    /\ Len(control) = MaxMsgs - 1

\* C36: a worker process whose execution context (the analyzer with its
\* models) could not be set up executes no task: only a process with the
\* models loaded runs calls; a process whose initialization raised is gone;
\* and no process runs its initialization more than once.
C36_WorkerFailFast ==
    executor # NoExecutor =>
        \A w \in DOMAIN executor.procs :
            LET p == executor.procs[w]
            IN  /\ p.ran > 0 => p.analyzer = "enhanced"
                /\ p.inits <= 1
                /\ (p.inits = 1 /\ p.analyzer = "NULL") => ~p.alive /\ p.ran = 0

\* the entries this step removed from the head of the push queue
Popped == SubSeq(queue, 1, Len(queue) - Len(queue'))

\* C37: every job a tick removes from the push queue is in the batch that the
\* same tick marks processing and submits, once per entry, whatever else the
\* queue holds.
C37_PoppedNotDropped ==
    [][Len(queue') < Len(queue) =>
        \A t \in Tasks : Count(Popped, t) > 0 =>
            /\ futures'[t] = Count(Popped, t)
            /\ tracks'[t].analysisStatus = "processing"]_vars

\* what must not happen while a batch is marked and awaited
Interleaved ==
    {"stale_sweep", "retry_sweep", "new_pool", "pool_shutdown_nowait",
     "pool_shutdown_wait", "health_check", "set_workers", "pause", "resume",
     "stop", "intake", "mark"}

\* C38: from the marking of a batch to the end of its await there is no
\* sweep, no resize, no recreate and no control poll, and the status of a
\* task changes only by the orchestrator's write for a yielded future; what
\* the tick does after the await starts with the end of the await.
C38_NoInterleaving ==
    [][pc = "await" =>
        /\ pc' = "await" =>
            /\ Range(ops') \cap Interleaved = {}
            /\ UNCHANGED <<polled, is_paused, running, NUM_WORKERS,
                           consecutive_empty>>
            /\ executor' \in {executor, [executor EXCEPT !.broken = TRUE]}
            /\ Len(control') >= Len(control)
        /\ pc' # "await" =>
            ops'[1] \in {"save_results", "save_failed", "timeout"}
        /\ \A t \in Tasks :
            tracks'[t].analysisStatus # Status(t) =>
                \/ /\ ops' \in {<<"save_results">>, <<"save_failed">>}
                   /\ futures'[t] = futures[t] - 1
                \/ /\ pc' # "await"
                   /\ ops'[1] = "timeout"]_vars

\* a batch is awaited on a pool that broke, with a control message waiting
C38_Witness ==
    /\ pc = "await"
    /\ executor.broken
    /\ control # <<>>
    /\ Total(futures) > 0

\* C39: the retry count of a task never goes down. A step raises it by at
\* most 1, and only where the failure path saved this task or a stale sweep
\* requeued it; the failure path and the sweep raise it by exactly 1; a
\* completion, the retry sweep and the replacement of the pool leave it as
\* it was.
C39_RetryMonotone ==
    [][\A t \in Tasks :
        LET d == tracks'[t].analysisRetryCount - Retries(t)
            failed == ops' = <<"save_failed">> /\ futures'[t] = futures[t] - 1
            swept == /\ "stale_sweep" \in Range(ops')
                     /\ Status(t) = "processing"
                     /\ tracks'[t].analysisStatus = "pending"
        IN  /\ d \in {0, 1}
            /\ d = 1 <=> (failed \/ swept)
            /\ ops' \in {<<"save_results">>, <<"retry_sweep">>} => d = 0
            /\ ("new_pool" \in Range(ops') /\ ~swept) => d = 0]_vars

\* a task that failed, was requeued by the retry sweep and then completed
\* still carries the count of its failure
C39_Witness ==
    \E t \in Tasks :
        /\ Status(t) = "completed"
        /\ Retries(t) >= 1
        /\ ops = <<"save_results">>
====
